---- MODULE Spec2Model ----
(***************************************************************************)
(* People counter of one door (src/app.py, MediaPipePeopleCounter) and the *)
(* key loop that drives it (LectureHallMonitor.run).                       *)
(*                                                                         *)
(* State: the counter object's fields.  One "tick" is one call of          *)
(* update_tracking.  Positions are pixel pairs <<x, y>>.                   *)
(***************************************************************************)
EXTENDS Integers, Sequences, FiniteSets, TLC

(* ------------------------------------------------------------------ *)
(* Program constants.                                                   *)
(* ------------------------------------------------------------------ *)
entry_line == 240
MATCH_DISTANCE == 80
INITIAL_FRAMES_SINCE_CROSSING == 999
PROCESS_EVERY_N_FRAMES == 2
NoId == -1
\* app.py:171: every frame is resized to 640x480
FRAME_WIDTH == 640
FRAME_HEIGHT == 480

(* ------------------------------------------------------------------ *)
(* Bounds of the model.                                                 *)
(* The two windows below are fields of the counter (app.py:53 sets       *)
(* DEBOUNCE_FRAMES = 15, app.py:55 sets MAX_FRAMES_NOT_SEEN = 150).      *)
(* The code reads them only through `>=` and `<`, so the model runs with *)
(* short windows; the order DEBOUNCE_FRAMES < MAX_FRAMES_NOT_SEEN <      *)
(* INITIAL_FRAMES_SINCE_CROSSING of the source is kept.                  *)
(* ------------------------------------------------------------------ *)
DEBOUNCE_FRAMES == 3
MAX_FRAMES_NOT_SEEN == 4
\* calls of update_tracking in one run: enough for a track to be created,
\* to expire and for a new one to appear afterwards
MaxTicks == 6
\* ids handed out between two resets
MaxIds == 3
\* presses of the 'r' key
MaxResets == 1
\* detections in one direct call of update_tracking
MaxDets == 2
\* direct calls of update_tracking in one run of SpecCore
MaxCoreTicks == 2
\* crossings one door counts in one direction in a run of SpecDoors
MaxCount == 2

(* Nose positions the detector may report (x, y in pixels):             *)
(*   <<100,200>> above the line, <<100,260>> below it (60 px apart),     *)
(*   <<100,240>> exactly on the line,                                    *)
(*   <<180,200>> exactly MATCH_DISTANCE from <<100,200>> and farther     *)
(*   than MATCH_DISTANCE from the other two.                             *)
Positions == { <<100, 200>>, <<100, 260>>, <<100, 240>>, <<180, 200>> }

(* What get_person_center can return: app.py:81-82 scale the normalized *)
(* nose landmark to pixels without a check, and the pose model places a *)
(* nose it estimates outside the image at coordinates outside [0, 1].   *)
(* <<100,500>> is such a point, below the 640x480 frame.                *)
NosePositions == Positions \cup { <<100, 500>> }

(* The doors of a LectureHallMonitor.  Its door_configs is a parameter    *)
(* (app.py:308-310) and create_dashboard lays out up to three cameras;   *)
(* two doors make the sums over doors differ from one door's counters.   *)
Doors == {"Door 1", "Door 2"}

VARIABLES
    tracked_people,      \* person_id -> [position, last_side, frames_since_crossing, frames_not_seen]
    next_id,
    entries,
    exits,
    frame_count,         \* kept modulo PROCESS_EVERY_N_FRAMES, the only way counting reads it
    is_person_detected,
    detected_people,     \* the person dicts of the last frame: [pos, id, crossing]
    total_people,        \* the occupancy drawn on the stats panel of the last frame
    \* LectureHallMonitor
    counters,            \* door name -> [entries, exits] of that door's counter
    total_in,            \* the three numbers of the last dashboard panel
    total_out,
    occupancy,
    total,               \* the number printed by the last status update
    \* history (not program state)
    last_op,             \* "init", "skip", "idle", "tick", "reset" for the counter,
                         \* "count", "dashboard", "status", "reset_all" for the monitor
    ticks,               \* calls of update_tracking since construction
    resets,              \* calls of reset
    log,                 \* one record per detection of the last tick
    hist,                \* person_id -> what happened to the track so far
    issued,              \* [gen, id] of every track ever created
    expired              \* [gen, id, pos] of every track ever removed by expiry

\* the monitor's part of the state
doorVars == << counters, total_in, total_out, occupancy, total >>

\* the single counter's part of the state, last_op left out
counterVars == << tracked_people, next_id, entries, exits, frame_count, is_person_detected,
                  detected_people, total_people, ticks, resets, log, hist, issued, expired >>

vars == << tracked_people, next_id, entries, exits, frame_count, is_person_detected,
           detected_people, total_people, counters, total_in, total_out, occupancy, total,
           last_op, ticks, resets, log, hist, issued, expired >>

(* ------------------------------------------------------------------ *)
(* Pure helpers.                                                        *)
(* ------------------------------------------------------------------ *)
get_side(y) == IF y > entry_line THEN "bottom" ELSE "top"

\* Square of the distance of app.py:103.  np.sqrt is strictly increasing on
\* the integers that occur here, so `dist < min_dist` is decided on squares.
Dist2(p, q) == (p[1] - q[1]) * (p[1] - q[1]) + (p[2] - q[2]) * (p[2] - q[2])

MinOf(S) == CHOOSE m \in S : \A n \in S : m <= n

\* The loop of app.py:101-106 over the dict in insertion order, which is
\* ascending id.  min_d2 starts at MATCH_DISTANCE squared, matched at NoId.
RECURSIVE FindClosest(_, _, _, _, _)
FindClosest(tp, ids, pos, min_d2, matched) ==
    IF ids = {} THEN matched
    ELSE LET person_id == MinOf(ids)
             d2 == Dist2(pos, tp[person_id].position)
         IN  IF d2 < min_d2
             THEN FindClosest(tp, ids \ {person_id}, pos, d2, person_id)
             ELSE FindClosest(tp, ids \ {person_id}, pos, min_d2, matched)

\* the nearest track taken whatever its distance
MatchId_NoThreshold(tp, pos) ==
    FindClosest(tp, DOMAIN tp, pos, 100 * MATCH_DISTANCE * MATCH_DISTANCE, NoId)

\* a track at exactly MATCH_DISTANCE still matches
MatchId_Inclusive(tp, pos) ==
    FindClosest(tp, DOMAIN tp, pos, MATCH_DISTANCE * MATCH_DISTANCE + 1, NoId)

MatchId(tp, pos) ==
    FindClosest(tp, DOMAIN tp, pos, MATCH_DISTANCE * MATCH_DISTANCE, NoId)

\* can_cross with a strict comparison
can_cross_Strict(frames_since) == frames_since > DEBOUNCE_FRAMES

\* can_cross with the debounce test dropped
can_cross_NoDebounce(frames_since) == frames_since >= 0

\* app.py:122
can_cross(frames_since) == frames_since >= DEBOUNCE_FRAMES

\* app.py:90-93
AgeTrack(t) ==
    [t EXCEPT !.frames_since_crossing = @ + 1, !.frames_not_seen = @ + 1]

AgeAll(tp) == [i \in DOMAIN tp |-> AgeTrack(tp[i])]

\* a new track whose frames_since_crossing starts at 0 instead of the sentinel
NewTrack_ZeroSince(pos) ==
    [position |-> pos,
     last_side |-> get_side(pos[2]),
     frames_since_crossing |-> 0,
     frames_not_seen |-> 0]

\* app.py:148-153
NewTrack(pos) ==
    [position |-> pos,
     last_side |-> get_side(pos[2]),
     frames_since_crossing |-> INITIAL_FRAMES_SINCE_CROSSING,
     frames_not_seen |-> 0]

\* entry and exit exchanged
Crossing_Swapped(old_side, new_side, frames_since) ==
    IF old_side # new_side /\ can_cross(frames_since)
    THEN IF old_side = "top" /\ new_side = "bottom" THEN "exit"
         ELSE IF old_side = "bottom" /\ new_side = "top" THEN "entry"
         ELSE "none"
    ELSE "none"

\* app.py:124-135: the kind of crossing counted for a matched detection
Crossing(old_side, new_side, frames_since) ==
    IF old_side # new_side /\ can_cross(frames_since)
    THEN IF old_side = "top" /\ new_side = "bottom" THEN "entry"
         ELSE IF old_side = "bottom" /\ new_side = "top" THEN "exit"
         ELSE "none"
    ELSE "none"

\* the stored side updated only when the crossing is counted
UpdateMatched_SideOnlyWhenCounted(t, pos, crossing) ==
    [position |-> pos,
     last_side |-> IF crossing # "none" THEN get_side(pos[2]) ELSE t.last_side,
     frames_since_crossing |-> IF crossing # "none" THEN 0 ELSE t.frames_since_crossing,
     frames_not_seen |-> 0]

\* frames_since_crossing reset on every side transition, counted or suppressed
UpdateMatched_ResetOnSuppressed(t, pos, crossing) ==
    [position |-> pos,
     last_side |-> get_side(pos[2]),
     frames_since_crossing |-> IF t.last_side # get_side(pos[2]) THEN 0
                               ELSE t.frames_since_crossing,
     frames_not_seen |-> 0]

\* frames_since_crossing never reset
UpdateMatched_NoSinceReset(t, pos, crossing) ==
    [position |-> pos,
     last_side |-> get_side(pos[2]),
     frames_since_crossing |-> t.frames_since_crossing,
     frames_not_seen |-> 0]

\* frames_not_seen left as the ageing made it
UpdateMatched_NoSeenReset(t, pos, crossing) ==
    [position |-> pos,
     last_side |-> get_side(pos[2]),
     frames_since_crossing |-> IF crossing # "none" THEN 0 ELSE t.frames_since_crossing,
     frames_not_seen |-> t.frames_not_seen]

\* the position stored only when a crossing is counted
UpdateMatched_PositionOnlyWhenCounted(t, pos, crossing) ==
    [position |-> IF crossing # "none" THEN pos ELSE t.position,
     last_side |-> get_side(pos[2]),
     frames_since_crossing |-> IF crossing # "none" THEN 0 ELSE t.frames_since_crossing,
     frames_not_seen |-> 0]

\* app.py:114-143: the matched track after the detection at pos
UpdateMatched(t, pos, crossing) ==
    [position |-> pos,
     last_side |-> get_side(pos[2]),
     frames_since_crossing |-> IF crossing # "none" THEN 0 ELSE t.frames_since_crossing,
     frames_not_seen |-> 0]

\* the lowest id not in the registry, instead of the counter
NewId_FirstFree(tp, n) == MinOf((0..n) \ DOMAIN tp)

\* app.py:146-148: the id a new track gets
NewId(tp, n) == n

\* the counter left as it is
NextIdAfterCreate_Stuck(n) == n

\* app.py:155
NextIdAfterCreate(n) == n + 1

\* the tracks already matched or created in this call left out of the search
Candidates_Unmatched(tp, current_ids) ==
    [i \in DOMAIN tp \ current_ids |-> tp[i]]

\* app.py:101: every detection searches the whole registry, the tracks
\* already matched or created in this call included
Candidates(tp, current_ids) == tp

\* app.py:95-155, one iteration of the loop over detected_people.
\* st = [tp, next_id, entries, exits, current_ids, people, log]
ProcessDetection(st, pos) ==
    LET matched_id == MatchId(Candidates(st.tp, st.current_ids), pos) IN
    IF matched_id # NoId
    THEN LET t == st.tp[matched_id]
             old_side == t.last_side
             new_side == get_side(pos[2])
             frames_since == t.frames_since_crossing
             crossing == Crossing(old_side, new_side, frames_since)
         IN  [st EXCEPT
                !.tp = [st.tp EXCEPT ![matched_id] = UpdateMatched(t, pos, crossing)],
                !.entries = IF crossing = "entry" THEN @ + 1 ELSE @,
                !.exits = IF crossing = "exit" THEN @ + 1 ELSE @,
                !.current_ids = @ \cup {matched_id},
                !.people = Append(@, [pos |-> pos, id |-> matched_id, crossing |-> crossing]),
                !.log = Append(@, [pos |-> pos, id |-> matched_id, new |-> FALSE,
                                   flip |-> old_side # new_side,
                                   frames_since |-> frames_since,
                                   crossing |-> crossing])]
    ELSE LET new_id == NewId(st.tp, st.next_id) IN
         [st EXCEPT
            !.tp = [i \in DOMAIN st.tp \cup {new_id} |->
                        IF i = new_id THEN NewTrack(pos) ELSE st.tp[i]],
            !.next_id = NextIdAfterCreate(@),
            !.current_ids = @ \cup {new_id},
            !.people = Append(@, [pos |-> pos, id |-> new_id, crossing |-> "none"]),
            !.log = Append(@, [pos |-> pos, id |-> new_id, new |-> TRUE,
                               flip |-> FALSE,
                               frames_since |-> INITIAL_FRAMES_SINCE_CROSSING,
                               crossing |-> "none"])]

RECURSIVE ProcessDetections(_, _)
ProcessDetections(st, dets) ==
    IF dets = << >> THEN st
    ELSE ProcessDetections(ProcessDetection(st, Head(dets)), Tail(dets))

\* the expiry test off by one
Keep_OffByOne(t, seen) == seen \/ t.frames_not_seen <= MAX_FRAMES_NOT_SEEN

\* app.py:157-164
Keep(t, seen) == seen \/ t.frames_not_seen < MAX_FRAMES_NOT_SEEN

\* no track ever removed
ExpireTracks_KeepAll(tp, current_ids) == tp

ExpireTracks(tp, current_ids) ==
    LET kept == {i \in DOMAIN tp : Keep(tp[i], i \in current_ids)}
    IN  [i \in kept |-> tp[i]]

\* app.py:86-164, the whole call
update_tracking(tp, nid, ent, ext, dets) ==
    LET st0 == [tp |-> AgeAll(tp), next_id |-> nid, entries |-> ent, exits |-> ext,
                current_ids |-> {}, people |-> << >>, log |-> << >>]
        st1 == ProcessDetections(st0, dets)
    IN  [st1 EXCEPT !.tp = ExpireTracks(st1.tp, st1.current_ids)]

\* reset that leaves the id counter alone
ResetFields_KeepIds ==
    [entries |-> 0, exits |-> 0, tp |-> [i \in {} |-> 0], next_id |-> next_id]

\* app.py:292-297
ResetFields ==
    [entries |-> 0, exits |-> 0, tp |-> [i \in {} |-> 0], next_id |-> 0]

(* ------------------------------------------------------------------ *)
(* History of each track, kept beside the program state and computed    *)
(* from the log of the tick, never from the track's own counters.       *)
(*   run         consecutive ticks in which no detection bound to it    *)
(*   since_flip  ticks since its last side transition (counted or not)  *)
(*   since_count ticks since its last counted crossing                  *)
(*   flipped     whether it ever had a side transition                  *)
(* since_flip and since_count stop at DEBOUNCE_FRAMES, which also stands *)
(* for "never".                                                         *)
(* ------------------------------------------------------------------ *)
Never == DEBOUNCE_FRAMES

Capped(n) == IF n >= Never THEN Never ELSE n

FreshHist == [run |-> 0, since_flip |-> Never, since_count |-> Never, flipped |-> FALSE]

HistAfterTick(h, tpAfter, lg) ==
    [i \in DOMAIN tpAfter |->
        LET mine == {k \in 1..Len(lg) : lg[k].id = i}
            created == \E k \in mine : lg[k].new
            flips == \E k \in mine : lg[k].flip
            counts == \E k \in mine : lg[k].crossing # "none"
            old == IF created THEN FreshHist
                   ELSE [h[i] EXCEPT !.since_flip = Capped(@ + 1),
                                     !.since_count = Capped(@ + 1)]
        IN  [run |-> IF mine # {} THEN 0 ELSE h[i].run + 1,
             since_flip |-> IF flips THEN 0 ELSE old.since_flip,
             since_count |-> IF counts THEN 0 ELSE old.since_count,
             flipped |-> old.flipped \/ flips]]

(* ------------------------------------------------------------------ *)
(* Initial state: MediaPipePeopleCounter.__init__, app.py:23-61.        *)
(* ------------------------------------------------------------------ *)
Init ==
    /\ tracked_people = [i \in {} |-> 0]
    /\ next_id = 0
    /\ entries = 0
    /\ exits = 0
    /\ frame_count = 0
    /\ is_person_detected = FALSE
    /\ detected_people = << >>
    /\ total_people = 0
    /\ counters = [d \in Doors |-> [entries |-> 0, exits |-> 0]]
    /\ total_in = 0
    /\ total_out = 0
    /\ occupancy = 0
    /\ total = 0
    /\ last_op = "init"
    /\ ticks = 0
    /\ resets = 0
    /\ log = << >>
    /\ hist = [i \in {} |-> 0]
    /\ issued = {}
    /\ expired = {}

\* One call update_tracking(dets) and what it leaves in the object.
Tick(dets) ==
    \E r \in {update_tracking(tracked_people, next_id, entries, exits, dets)} :
    /\ ticks < MaxTicks
    /\ r.next_id <= MaxIds
    /\ tracked_people' = r.tp
    /\ next_id' = r.next_id
    /\ entries' = r.entries
    /\ exits' = r.exits
    /\ detected_people' = r.people
    /\ last_op' = "tick"
    /\ ticks' = ticks + 1
    /\ log' = r.log
    /\ hist' = HistAfterTick(hist, r.tp, r.log)
    /\ issued' = issued \cup
          {[gen |-> resets, id |-> r.log[k].id] : k \in {j \in 1..Len(r.log) : r.log[j].new}}
    /\ expired' = expired \cup
          {[gen |-> resets, id |-> i, pos |-> tracked_people[i].position] :
               i \in DOMAIN tracked_people \ DOMAIN r.tp}
    /\ UNCHANGED << resets, doorVars >>

\* the occupancy never shown below zero
Occupancy_Clamped(ent, ext) == IF ent - ext < 0 THEN 0 ELSE ent - ext

\* app.py:256: the occupancy of the stats panel
Occupancy(ent, ext) == ent - ext

\* app.py:168, 175
NextFrameCount == (frame_count + 1) % PROCESS_EVERY_N_FRAMES

should_process(fc) == fc % PROCESS_EVERY_N_FRAMES = 0

\* process_frame on a frame that is not processed (app.py:175-178, 223-226)
ProcessFrameSkipped ==
    /\ ~should_process(NextFrameCount)
    /\ frame_count' = NextFrameCount
    /\ detected_people' = << >>
    /\ total_people' = Occupancy(entries, exits)
    /\ last_op' = "skip"
    /\ log' = << >>
    /\ UNCHANGED << tracked_people, next_id, entries, exits, is_person_detected,
                    ticks, resets, hist, issued, expired, doorVars >>

\* process_frame on a processed frame in which the pose detector finds no
\* landmarks (app.py:207-208, 223-226): update_tracking is not called
ProcessFrameNoPerson ==
    /\ should_process(NextFrameCount)
    /\ frame_count' = NextFrameCount
    /\ is_person_detected' = FALSE
    /\ detected_people' = << >>
    /\ total_people' = Occupancy(entries, exits)
    /\ last_op' = "idle"
    /\ log' = << >>
    /\ UNCHANGED << tracked_people, next_id, entries, exits,
                    ticks, resets, hist, issued, expired, doorVars >>

\* process_frame on a processed frame with pose landmarks (app.py:208-217, 256):
\* exactly one detection, the nose position
ProcessFrameDetected(center) ==
    /\ should_process(NextFrameCount)
    /\ frame_count' = NextFrameCount
    /\ is_person_detected' = TRUE
    /\ Tick(<< center >>)
    /\ total_people' = Occupancy(entries', exits')

\* the 'r' key of LectureHallMonitor.run (app.py:403-405) -> reset (app.py:292-297)
Reset ==
    /\ resets < MaxResets
    /\ entries' = ResetFields.entries
    /\ exits' = ResetFields.exits
    /\ tracked_people' = ResetFields.tp
    /\ next_id' = ResetFields.next_id
    /\ last_op' = "reset"
    /\ resets' = resets + 1
    /\ log' = << >>
    /\ hist' = [i \in {} |-> 0]
    /\ UNCHANGED << frame_count, is_person_detected, detected_people, total_people,
                    ticks, issued, expired, doorVars >>

Next ==
    \/ ProcessFrameSkipped
    \/ ProcessFrameNoPerson
    \/ \E center \in NosePositions : ProcessFrameDetected(center)
    \/ Reset

Spec == Init /\ [][Next]_vars

(* ------------------------------------------------------------------ *)
(* update_tracking taken as the interface of the core: called directly  *)
(* with any list of at most MaxDets detections, the empty list included. *)
(* ------------------------------------------------------------------ *)
DetectionLists ==
    UNION {[1..n -> Positions] : n \in 0..MaxDets}

UpdateTrackingCall(dets) ==
    /\ ticks < MaxCoreTicks
    /\ Tick(dets)
    /\ UNCHANGED << frame_count, is_person_detected, total_people >>

NextCore ==
    \/ \E dets \in DetectionLists : UpdateTrackingCall(dets)
    \/ Reset

SpecCore == Init /\ [][NextCore]_vars

(* ------------------------------------------------------------------ *)
(* LectureHallMonitor: the totals over the doors.  Each door's counter  *)
(* is taken here as its two tallies; a door counts a crossing           *)
(* (app.py:127, 133), the dashboard and the status line are computed,   *)
(* the 'r' key resets every door.                                       *)
(* ------------------------------------------------------------------ *)
RECURSIVE SumOver(_, _)
SumOver(f, S) ==
    IF S = {} THEN 0
    ELSE LET d == CHOOSE x \in S : TRUE IN f[d] + SumOver(f, S \ {d})

\* the occupancy taken from the entries alone
create_dashboard_EntriesOnly(c) ==
    LET ti == SumOver([d \in DOMAIN c |-> c[d].entries], DOMAIN c)
        to == SumOver([d \in DOMAIN c |-> c[d].exits], DOMAIN c)
    IN  [total_in |-> ti, total_out |-> to, occupancy |-> ti]

\* app.py:355-358
create_dashboard(c) ==
    LET ti == SumOver([d \in DOMAIN c |-> c[d].entries], DOMAIN c)
        to == SumOver([d \in DOMAIN c |-> c[d].exits], DOMAIN c)
    IN  [total_in |-> ti, total_out |-> to, occupancy |-> ti - to]

\* app.py:396
StatusTotal(c) == SumOver([d \in DOMAIN c |-> c[d].entries - c[d].exits], DOMAIN c)

\* one door's counter counts a crossing in process_frame
DoorCounts(d, kind) ==
    /\ counters[d][kind] < MaxCount
    /\ counters' = [counters EXCEPT ![d][kind] = @ + 1]
    /\ last_op' = "count"
    /\ UNCHANGED << total_in, total_out, occupancy, total, counterVars >>

CreateDashboard ==
    /\ total_in' = create_dashboard(counters).total_in
    /\ total_out' = create_dashboard(counters).total_out
    /\ occupancy' = create_dashboard(counters).occupancy
    /\ last_op' = "dashboard"
    /\ UNCHANGED << counters, total, counterVars >>

\* app.py:394-397
StatusUpdate ==
    /\ total' = StatusTotal(counters)
    /\ last_op' = "status"
    /\ UNCHANGED << counters, total_in, total_out, occupancy, counterVars >>

\* app.py:403-405 over every door
ResetAll ==
    /\ counters' = [d \in Doors |-> [entries |-> ResetFields.entries,
                                      exits |-> ResetFields.exits]]
    /\ last_op' = "reset_all"
    /\ UNCHANGED << total_in, total_out, occupancy, total, counterVars >>

NextDoors ==
    \/ \E d \in Doors, kind \in {"entries", "exits"} : DoorCounts(d, kind)
    \/ CreateDashboard
    \/ StatusUpdate
    \/ ResetAll

SpecDoors == Init /\ [][NextDoors]_vars

(* ------------------------------------------------------------------ *)
(* Shorthands for the properties.                                       *)
(* ------------------------------------------------------------------ *)
\* the step is one call of update_tracking
TickStep == ticks' = ticks + 1

\* the position is a pixel of the frame
InFrame(pos) ==
    /\ 0 <= pos[1] /\ pos[1] < FRAME_WIDTH
    /\ 0 <= pos[2] /\ pos[2] < FRAME_HEIGHT

LogOf(lg) == {lg[k] : k \in 1..Len(lg)}

\* how many detections of the tick were counted as a crossing
CountedIn(lg) == Cardinality({k \in 1..Len(lg) : lg[k].crossing # "none"})

(* ------------------------------------------------------------------ *)
(* C1                                                                   *)
(* ------------------------------------------------------------------ *)
\* C1 as stated: when a matched track changes side fewer than DEBOUNCE_FRAMES
\* ticks after its previous side transition (counted or not), the second
\* transition is not counted: no crossing for it, entries and exits unchanged.
C1_SecondTransitionNeverCounted ==
    [][TickStep =>
        \A l \in LogOf(log') :
            (~l.new /\ l.flip /\ l.id \in DOMAIN hist
                /\ hist[l.id].since_flip + 1 < DEBOUNCE_FRAMES)
            => (l.crossing = "none" /\ entries' = entries /\ exits' = exits)]_vars

\* C1 amended: when a matched track changes side fewer than DEBOUNCE_FRAMES
\* ticks after its last counted crossing, the transition is not counted: no
\* crossing for it, and entries and exits grow only by what the other
\* detections of the tick count (by nothing when it is the only detection).
C1_TransitionAfterCountedSuppressed ==
    [][TickStep =>
        \A l \in LogOf(log') :
            (~l.new /\ l.flip /\ l.id \in DOMAIN hist
                /\ hist[l.id].since_count + 1 < DEBOUNCE_FRAMES)
            => /\ l.crossing = "none"
               /\ entries' + exits' = entries + exits + CountedIn(log')
               /\ Len(log') = 1 => (entries' = entries /\ exits' = exits)]_vars

\* a side transition was just suppressed inside the window of a counted crossing
C1_Witness ==
    /\ last_op = "tick"
    /\ \E l \in LogOf(log) :
          /\ ~l.new /\ l.flip /\ l.crossing = "none"
          /\ l.id \in DOMAIN hist
          /\ hist[l.id].since_flip = 0
          /\ hist[l.id].since_count \in 1..(DEBOUNCE_FRAMES - 1)

C4_EmptyFrameAgesTracks ==
    [][(last_op' = "idle" /\ frame_count' # frame_count) =>
        /\ entries' = entries
        /\ exits' = exits
        /\ \A i \in DOMAIN tracked_people :
              LET t == tracked_people[i] IN
              IF t.frames_not_seen + 1 >= MAX_FRAMES_NOT_SEEN
              THEN i \notin DOMAIN tracked_people'
              ELSE /\ i \in DOMAIN tracked_people'
                   /\ tracked_people'[i].frames_since_crossing = t.frames_since_crossing + 1
                   /\ tracked_people'[i].frames_not_seen = t.frames_not_seen + 1]_vars

(* ------------------------------------------------------------------ *)
(* C5                                                                   *)
(* ------------------------------------------------------------------ *)
\* C5 as stated: a track created in a tick gets an id greater than the id of
\* every track that ever expired.
C5_IdNeverReusedAfterExpiry ==
    [][TickStep =>
        \A l \in LogOf(log') :
            l.new => \A e \in expired' : l.id > e.id]_vars

\* C5 amended: a track created in a tick gets an id greater than the id of
\* every track that expired since the last reset (or since construction).
C5_IdNotReusedAfterExpiryUntilReset ==
    [][TickStep =>
        \A l \in LogOf(log') :
            l.new => \A e \in expired' : e.gen = resets' => l.id > e.id]_vars

\* a track was just created at the last position of a track that expired
\* since the last reset
C5_Witness ==
    /\ last_op = "tick"
    /\ \E l \in LogOf(log) : \E e \in expired :
          l.new /\ e.gen = resets /\ e.pos = l.pos /\ l.id > e.id

(* ------------------------------------------------------------------ *)
(* C6                                                                   *)
(* ------------------------------------------------------------------ *)
\* C6 as stated: over ticks and resets, a track created in a tick gets an id
\* greater than every id the door assigned before.
C6_IdsIncreaseOverTicksAndResets ==
    [][TickStep =>
        \A l \in LogOf(log') :
            l.new => \A x \in issued : l.id > x.id]_vars

\* C6 amended: a track created in a tick gets an id greater than every id the
\* door assigned since its last reset (or since construction), and the ids in
\* the registry are exactly ids assigned since then.
C6_IdsIncreaseUntilReset ==
    [][TickStep =>
        /\ \A l \in LogOf(log') :
              l.new => \A x \in issued : x.gen = resets => l.id > x.id
        /\ \A i \in DOMAIN tracked_people' :
              [gen |-> resets', id |-> i] \in issued']_vars

\* a track was just created while the door had assigned ids before, since
\* the last reset
C6_Witness ==
    /\ last_op = "tick"
    /\ \E l \in LogOf(log) : \E x \in issued :
          l.new /\ x.gen = resets /\ x.id < l.id

(* ------------------------------------------------------------------ *)
(* C7                                                                   *)
(* ------------------------------------------------------------------ *)
\* C7: right after reset entries = 0, exits = 0, the registry is empty, the
\* id counter is 0 and the next created track would get id 0.
C7_ResetRestoresInitial ==
    last_op = "reset" =>
        /\ entries = 0
        /\ exits = 0
        /\ DOMAIN tracked_people = {}
        /\ next_id = 0
        /\ NewId(tracked_people, next_id) = 0

\* reset was just called on a door that had assigned at least two ids and
\* lost a track by expiry
C7_Witness ==
    /\ last_op = "reset"
    /\ \E x \in issued : x.id >= 1
    /\ expired # {}

(* ------------------------------------------------------------------ *)
(* C8                                                                   *)
(* ------------------------------------------------------------------ *)
\* C8: every track's stored side is "bottom" when the y of its stored
\* position is strictly greater than entry_line, and "top" otherwise.
C8_SideMatchesPosition ==
    \A i \in DOMAIN tracked_people :
        LET t == tracked_people[i] IN
        /\ t.last_side \in {"top", "bottom"}
        /\ t.last_side = "bottom" <=> t.position[2] > entry_line

\* a side transition was just suppressed by debounce
C8_Witness ==
    /\ last_op = "tick"
    /\ \E l \in LogOf(log) :
          /\ ~l.new /\ l.flip /\ l.crossing = "none"
          /\ l.id \in DOMAIN tracked_people
          /\ tracked_people[l.id].position = l.pos

(* ------------------------------------------------------------------ *)
(* C9                                                                   *)
(* ------------------------------------------------------------------ *)
\* C9: in every step, a track's frames_since_crossing increases by 1, is
\* unchanged, or becomes 0 in a tick that counts a crossing of that track and
\* increments entries or exits.
C9_SinceResetOnlyWhenCounted ==
    [][\A i \in DOMAIN tracked_people \cap DOMAIN tracked_people' :
          LET a == tracked_people[i].frames_since_crossing
              b == tracked_people'[i].frames_since_crossing
          IN  \/ b = a + 1
              \/ b = a
              \/ /\ b = 0
                 /\ TickStep
                 /\ entries' + exits' > entries + exits
                 /\ \E l \in LogOf(log') : l.id = i /\ l.crossing # "none"]_vars

\* a crossing was just counted and the track's frames_since_crossing is 0
C9_Witness ==
    /\ last_op = "tick"
    /\ \E l \in LogOf(log) :
          /\ l.crossing # "none"
          /\ l.id \in DOMAIN tracked_people
          /\ tracked_people[l.id].frames_since_crossing = 0

(* ------------------------------------------------------------------ *)
(* C10                                                                  *)
(* ------------------------------------------------------------------ *)
\* C10: among the person dicts of one tick, at most one per track id carries
\* a crossing, and entries + exits grew by the number of dicts that carry one.
C10_OneCrossingPerTrackPerTick ==
    [][TickStep =>
        LET crossed == {k \in 1..Len(detected_people') :
                            detected_people'[k].crossing # "none"}
        IN  /\ \A j, k \in crossed :
                  detected_people'[j].id = detected_people'[k].id => j = k
            /\ entries' + exits' = entries + exits + Cardinality(crossed)]_vars

\* two detections of the tick bound to the same track and one of them was
\* counted as a crossing
C10_Witness ==
    /\ last_op = "tick"
    /\ \E j, k \in 1..Len(detected_people) :
          /\ j < k
          /\ detected_people[j].id = detected_people[k].id
          /\ detected_people[j].crossing # "none"
          /\ log[k].flip

(* ------------------------------------------------------------------ *)
(* C11                                                                  *)
(* ------------------------------------------------------------------ *)
\* C11: when the one detection of a tick is counted as a crossing, the track
\* came from the other side of the line; from above to below adds exactly 1
\* to entries and leaves exits, from below to above adds exactly 1 to exits
\* and leaves entries; the track's frames_since_crossing becomes 0.
C11_CountedCrossingDirection ==
    [][(TickStep /\ Len(log') = 1) =>
        LET l == log'[1] IN
        (~l.new /\ l.crossing # "none") =>
            LET fromBelow == tracked_people[l.id].position[2] > entry_line
                toBelow == l.pos[2] > entry_line
            IN  /\ fromBelow # toBelow
                /\ toBelow => /\ l.crossing = "entry"
                              /\ entries' = entries + 1
                              /\ exits' = exits
                /\ fromBelow => /\ l.crossing = "exit"
                                /\ exits' = exits + 1
                                /\ entries' = entries
                /\ tracked_people'[l.id].frames_since_crossing = 0]_vars

\* an exit was just counted on a door that also counted an entry
C11_Witness ==
    /\ last_op = "tick"
    /\ entries >= 1
    /\ exits >= 1
    /\ \E l \in LogOf(log) :
          l.crossing = "exit" /\ tracked_people[l.id].frames_since_crossing = 0

(* ------------------------------------------------------------------ *)
(* C12                                                                  *)
(* ------------------------------------------------------------------ *)
\* C12: when the one detection of a tick is farther than MATCH_DISTANCE from
\* every registered track, it creates a track with the next id and counts no
\* crossing, on whichever side of the line it lies.
C12_FarDetectionCreatesTrack ==
    [][(TickStep /\ Len(log') = 1) =>
        LET l == log'[1] IN
        (\A i \in DOMAIN tracked_people :
             Dist2(l.pos, tracked_people[i].position) > MATCH_DISTANCE * MATCH_DISTANCE)
        => /\ l.new
           /\ l.id = next_id
           /\ next_id' = next_id + 1
           /\ l.crossing = "none"
           /\ entries' = entries
           /\ exits' = exits]_vars

\* the second detection, across the line from track 0 and too far from it,
\* just created track 1; nothing was counted
C12_Witness ==
    /\ last_op = "tick"
    /\ entries = 0
    /\ exits = 0
    /\ \E l \in LogOf(log) :
          /\ l.new /\ l.id = 1
          /\ 0 \in DOMAIN tracked_people
          /\ tracked_people[0].last_side # tracked_people[1].last_side

(* ------------------------------------------------------------------ *)
(* C13                                                                  *)
(* ------------------------------------------------------------------ *)
\* C13: the occupancy that process_frame draws is, after every frame, the
\* door's entries minus its exits at that moment, negative values included.
C13_OccupancyIsEntriesMinusExits ==
    [][last_op' \in {"skip", "idle", "tick"} => total_people' = entries' - exits']_vars

\* an exit counted on a door with no entry: the panel shows -1
C13_Witness ==
    /\ last_op = "tick"
    /\ exits > entries
    /\ total_people = entries - exits
    /\ total_people < 0

(* ------------------------------------------------------------------ *)
(* C14                                                                  *)
(* ------------------------------------------------------------------ *)
\* C14: computing the dashboard totals or the status total changes no
\* door's counter; the dashboard's occupancy is its total_in minus its
\* total_out, these are the sums of the doors' entries and exits, and both
\* the occupancy and the status total equal the sum over the doors of
\* entries minus exits.
C14_TotalsReadOnly ==
    [][/\ last_op' = "dashboard" =>
            /\ counters' = counters
            /\ UNCHANGED counterVars
            /\ occupancy' = total_in' - total_out'
            /\ total_in' = SumOver([d \in Doors |-> counters[d].entries], Doors)
            /\ total_out' = SumOver([d \in Doors |-> counters[d].exits], Doors)
            /\ occupancy' = StatusTotal(counters)
       /\ last_op' = "status" =>
            /\ counters' = counters
            /\ UNCHANGED counterVars
            /\ total' = create_dashboard(counters).total_in
                          - create_dashboard(counters).total_out]_vars

\* a dashboard drawn while one door is ahead on entries and the other on
\* exits, the status total printed from the same counters
C14_Witness ==
    /\ last_op = "dashboard"
    /\ \E d1, d2 \in Doors :
          /\ counters[d1].entries > counters[d1].exits
          /\ counters[d2].entries < counters[d2].exits
    /\ total_out > 0
    /\ occupancy = total_in - total_out
    /\ total = occupancy
    /\ occupancy # 0

(* ------------------------------------------------------------------ *)
(* C15                                                                  *)
(* ------------------------------------------------------------------ *)
\* C15 as stated: when the one detection of a tick lies outside the frame,
\* it is rejected before matching: no track is created or moved, and
\* next_id, entries and exits stay as they are.
C15_InvalidDetectionRejected ==
    [][(TickStep /\ Len(log') = 1 /\ ~InFrame(log'[1].pos)) =>
        /\ next_id' = next_id
        /\ entries' = entries
        /\ exits' = exits
        /\ DOMAIN tracked_people' \subseteq DOMAIN tracked_people
        /\ \A i \in DOMAIN tracked_people' :
              tracked_people'[i].position = tracked_people[i].position]_vars

C17_SuppressedTransitionEffect ==
    [][(TickStep /\ Len(log') = 1) =>
        LET l == log'[1] IN
        (/\ ~l.new
         /\ tracked_people[l.id].last_side # get_side(l.pos[2])
         /\ tracked_people[l.id].frames_since_crossing + 1 < DEBOUNCE_FRAMES) =>
            /\ entries' = entries
            /\ exits' = exits
            /\ next_id' = next_id
            /\ tracked_people'[l.id] =
                  [position |-> l.pos,
                   last_side |-> get_side(l.pos[2]),
                   frames_since_crossing |-> tracked_people[l.id].frames_since_crossing + 1,
                   frames_not_seen |-> 0]]_vars

\* a track that moved across the line inside the window: nothing counted,
\* its new position and side stored
C17_Witness ==
    /\ last_op = "tick"
    /\ \E l \in LogOf(log) :
          /\ ~l.new /\ l.flip /\ l.crossing = "none"
          /\ l.frames_since < DEBOUNCE_FRAMES
          /\ tracked_people[l.id].position = l.pos
          /\ tracked_people[l.id].frames_since_crossing = l.frames_since
          /\ tracked_people[l.id].frames_not_seen = 0

(* ------------------------------------------------------------------ *)
(* C18                                                                  *)
(* ------------------------------------------------------------------ *)
\* C18: when the one detection of a tick matches a track and lies on the
\* same side of the line as the track's stored position, no crossing is
\* counted, whatever the track's frames_since_crossing: a suppressed
\* transition is not counted on a later tick.
C18_SuppressedNeverCountedLater ==
    [][(TickStep /\ Len(log') = 1) =>
        LET l == log'[1] IN
        (~l.new /\ get_side(tracked_people[l.id].position[2]) = get_side(l.pos[2])) =>
            /\ entries' = entries
            /\ exits' = exits
            /\ l.crossing = "none"]_vars

\* a track whose last side change was suppressed is seen on the same side
\* once the window since its counted crossing has passed; nothing is counted
C18_Witness ==
    /\ last_op = "tick"
    /\ \E l \in LogOf(log) :
          /\ ~l.new /\ ~l.flip /\ l.crossing = "none"
          /\ l.frames_since >= DEBOUNCE_FRAMES
          /\ l.frames_since < INITIAL_FRAMES_SINCE_CROSSING
          /\ hist[l.id].since_flip < hist[l.id].since_count

(* ------------------------------------------------------------------ *)
(* C19                                                                  *)
(* ------------------------------------------------------------------ *)
\* C19: the one detection of a tick takes the id of a registered track at
\* the least distance from it exactly when that least distance is below
\* MATCH_DISTANCE; with no track, or the least distance at MATCH_DISTANCE
\* or more, it creates a track with id next_id.
C19_NearestBelowThreshold ==
    [][(TickStep /\ Len(log') = 1) =>
        LET l == log'[1]
            D == {Dist2(l.pos, tracked_people[i].position) : i \in DOMAIN tracked_people}
        IN  IF D = {} \/ MinOf(D) >= MATCH_DISTANCE * MATCH_DISTANCE
            THEN l.new /\ l.id = next_id /\ l.id \notin DOMAIN tracked_people
            ELSE /\ ~l.new
                 /\ l.id \in DOMAIN tracked_people
                 /\ Dist2(l.pos, tracked_people[l.id].position) = MinOf(D)]_vars

\* a detection at exactly MATCH_DISTANCE from a registered track created a
\* track of its own
C19_Witness ==
    /\ last_op = "tick"
    /\ \E l \in LogOf(log) :
          /\ l.new
          /\ \E i \in DOMAIN tracked_people \ {l.id} :
                Dist2(l.pos, tracked_people[i].position) = MATCH_DISTANCE * MATCH_DISTANCE

(* ------------------------------------------------------------------ *)
(* C20                                                                  *)
(* ------------------------------------------------------------------ *)
\* C20: matching within one call is not exclusive: of two detections at the
\* same position, the second takes the id the first was given, matched or
\* created.
C20_MatchingNotExclusive ==
    [][(TickStep /\ Len(log') = 2 /\ log'[1].pos = log'[2].pos) =>
        /\ log'[2].id = log'[1].id
        /\ ~log'[2].new
        /\ Len(detected_people') = 2
        /\ detected_people'[1].id = detected_people'[2].id]_vars

\* two detections at different positions were both bound to one registered
\* track in the same call
C20_Witness ==
    /\ last_op = "tick"
    /\ Len(log) = 2
    /\ ~log[1].new /\ ~log[2].new
    /\ log[1].id = log[2].id
    /\ log[1].pos # log[2].pos
    /\ tracked_people[log[2].id].position = log[2].pos

(* ------------------------------------------------------------------ *)
(* C21                                                                  *)
(* ------------------------------------------------------------------ *)
\* C21: every track that a detection of the tick matched or created is in
\* the registry after the tick, with frames_not_seen 0; a track the tick
\* removed had no detection bound to it.
C21_SeenTrackNotRemoved ==
    [][TickStep =>
        /\ \A l \in LogOf(log') :
              /\ l.id \in DOMAIN tracked_people'
              /\ tracked_people'[l.id].frames_not_seen = 0
        /\ \A i \in DOMAIN tracked_people \ DOMAIN tracked_people' :
              \A l \in LogOf(log') : l.id # i]_vars

\* the earliest tick in which a track can expire: track 0 has just been
\* removed while the detection of the tick matched another track, which stays
C21_Witness ==
    /\ last_op = "tick"
    /\ resets = 0
    /\ ticks = MAX_FRAMES_NOT_SEEN + 1
    /\ \E e \in expired : e.id \notin DOMAIN tracked_people
    /\ Len(log) = 1
    /\ ~log[1].new
    /\ log[1].id \in DOMAIN tracked_people
    /\ tracked_people[log[1].id].frames_not_seen = 0

(* ------------------------------------------------------------------ *)
(* C22                                                                  *)
(* ------------------------------------------------------------------ *)
\* C22: every registered track has frames_not_seen below
\* MAX_FRAMES_NOT_SEEN: a tick removes the tracks that reach it.
C22_UnseenBelowMax ==
    \A i \in DOMAIN tracked_people :
        tracked_people[i].frames_not_seen < MAX_FRAMES_NOT_SEEN

\* after a tick a track is one unseen tick away from removal
C22_Witness ==
    /\ last_op = "tick"
    /\ \E i \in DOMAIN tracked_people :
          /\ tracked_people[i].frames_not_seen = MAX_FRAMES_NOT_SEEN - 1
          /\ hist[i].run = MAX_FRAMES_NOT_SEEN - 1

(* ------------------------------------------------------------------ *)
(* C23                                                                  *)
(* ------------------------------------------------------------------ *)
\* C23: in a call with two detections the second is matched against the
\* registry as the first left it: the track the first matched or created
\* is a candidate at the first detection's position.  When the first creates
\* a track and the second binds to it from the other side of the line, a
\* crossing is counted in that same call.
C23_LaterDetectionSeesEarlier ==
    [][(TickStep /\ Len(log') = 2) =>
        LET l1 == log'[1]
            l2 == log'[2]
            ids == DOMAIN tracked_people \cup {l1.id}
            posOf(i) == IF i = l1.id THEN l1.pos ELSE tracked_people[i].position
            D == {Dist2(l2.pos, posOf(i)) : i \in ids}
        IN  /\ IF MinOf(D) < MATCH_DISTANCE * MATCH_DISTANCE
               THEN /\ ~l2.new
                    /\ l2.id \in ids
                    /\ Dist2(l2.pos, posOf(l2.id)) = MinOf(D)
               ELSE l2.new
            /\ (l1.new /\ l2.id = l1.id /\ get_side(l1.pos[2]) # get_side(l2.pos[2]))
                  => /\ l2.crossing # "none"
                     /\ entries' + exits' = entries + exits + 1]_vars

\* a track created by the first detection of a call had a crossing counted
\* for the second detection of the same call
C23_Witness ==
    /\ last_op = "tick"
    /\ Len(log) = 2
    /\ log[1].new
    /\ log[2].id = log[1].id
    /\ log[2].crossing # "none"
    /\ entries + exits >= 1
    /\ tracked_people[log[1].id].position = log[2].pos

====
